---- MODULE Spec2Model ----
(***************************************************************************)
(* Model of the ink! staking contract (src/staking/lib.rs).                *)
(*                                                                         *)
(* The contract storage (stakes, last_reward_claims, total_staked,         *)
(* rewards_balance) and the host's block timestamp are the state.  Every   *)
(* message of the contract is one action.  A message is translated as the  *)
(* Rust function executes, up to the result it returns: Ok, a returned     *)
(* Err(..), or a panic (assert!, checked arithmetic).  The host commits    *)
(* the writes of a call that returns Ok and discards the writes, and the   *)
(* transfers, of a call that fails, by a returned Err(..) or by a panic.   *)
(* The two transfer collaborators (native transfer, PSP22 transfer) either *)
(* succeed or fail; their outcome is an input of the action.               *)
(*                                                                         *)
(* Integer widths: timestamps are u64, balances u128, period counts u32.   *)
(* A subtraction that would go below zero panics (checked arithmetic) and  *)
(* is modelled as such.  Every value the model reaches stays below 2^31,   *)
(* so the upper ends of u32/u64/u128 are not reached and the casts         *)
(* `as u32`, `as u64`, `as u128` are value preserving on these values.     *)
(***************************************************************************)
EXTENDS Integers, Sequences, FiniteSets

\* ---------------------------------------------------------------- bounds
MaxHalfDays == 2
MaxTotalStaked == 144
MaxPool == 2
MaxRewardHalfDays == 6
MaxLockDays == 1
MaxLockPool == 360

\* ------------------------------------------------------ program constants
reward_rate == 5
early_withdraw_fee == 10
reward_conversion_rate == 1
available_periods == {6, 12}
DAY == 86400
\* largest periods value for which the u32 product 86400 * periods does not
\* overflow: floor((2^32 - 1) / 86400)
MaxU32Periods == 49710

\* ----------------------------------------------------------------- inputs
Accounts == {"alice", "bob"}
Periods == {3, 6, 12}
StakeValues == {0, 72}
PoolValues == {0, 1}
HalfDay == DAY \div 2
LockBlock == 6 * DAY * 30
\* block timestamps: the first half days of the chain, and the end of a
\* 6-period lock (6 * 30 days) taken at timestamp 0, with the half day after
Timestamps == {k * HalfDay : k \in 0..MaxHalfDays}
              \cup {LockBlock, LockBlock + HalfDay}

\* inputs of the runs in which a lock set by extend comes to its end: whole
\* days, the days after the end of a 6-period lock taken on each of them,
\* and pool top-ups of 180, the reward of 72 over the 180 periods of such a
\* lock (72 * 5 * 180 * 100 / 36000)
LockTimestamps == {k * DAY : k \in 0..MaxLockDays}
                  \cup {LockBlock + (k + 1) * DAY : k \in 0..MaxLockDays}
LockPoolValues == {0, 180}

\* inputs of the reward-accrual queries
RewardAmounts == {1, 71, 72, 10000}
RewardTimestamps == {k * HalfDay : k \in 0..MaxRewardHalfDays} \cup {LockBlock + DAY}

\* history is not contract storage: when history.tracking is set it records,
\* per account, the timestamp of the account's earliest successful deposit
VARIABLES stakes, last_reward_claims, total_staked, rewards_balance, now, last,
          history

vars == <<stakes, last_reward_claims, total_staked, rewards_balance, now, last,
          history>>

\* The contract storage as one value, threaded through the helpers
Storage == [stakes |-> stakes, last_reward_claims |-> last_reward_claims,
            total_staked |-> total_staked, rewards_balance |-> rewards_balance]

\* Mapping::insert
Put(m, k, v) == [x \in (DOMAIN m) \cup {k} |-> IF x = k THEN v ELSE m[x]]

\* StakeInfo { amount, started_at, period, active_until }
StakeInfo(amount, started_at, period, active_until) ==
    [amount |-> amount, started_at |-> started_at, period |-> period,
     active_until |-> active_until]

\* Outcome of a (helper) call: storage after it, its result, and the
\* amounts handed to the native / reward-token transfer collaborators.
Out(S, res, native, token) == [st |-> S, res |-> res, native |-> native, token |-> token]

NoCall == [op |-> "none", caller |-> "none", period |-> 0, value |-> 0,
           res |-> "Ok", ret |-> 0, native |-> <<>>, token |-> <<>>]

\* _validate_period that accepts every non-zero period code
_validate_period_any(period) == period > 0

_validate_period(period) == period \in available_periods

_set_stake_info(S, account, amount, periods, started_at, until) ==
    [S EXCEPT !.stakes = Put(S.stakes, account, StakeInfo(amount, started_at, periods, until))]

get_staking_period(S, account) ==
    IF account \notin DOMAIN S.stakes
    THEN [res |-> "Err:Stake info not found", val |-> 0]
    ELSE LET stake_info == S.stakes[account] IN
         IF stake_info.active_until < stake_info.started_at
         THEN [res |-> "Panic:overflow", val |-> 0]
         ELSE [res |-> "Ok",
               val |-> (stake_info.active_until - stake_info.started_at) \div DAY]

\* reward_amount that divides the rate term before multiplying by the amount
reward_amount_divide_first(S, account, t) ==
    IF account \notin DOMAIN S.stakes
    THEN [res |-> "Err:Stake info not found", periods |-> 0, reward |-> 0]
    ELSE LET stake_info == S.stakes[account]
             time == IF t > stake_info.active_until THEN stake_info.active_until ELSE t
             last_claim == IF account \in DOMAIN S.last_reward_claims
                           THEN S.last_reward_claims[account] ELSE 0
         IN IF time < last_claim
            THEN [res |-> "Panic:overflow", periods |-> 0, reward |-> 0]
            ELSE LET periods_passed == (time - last_claim) \div DAY
                     reward == stake_info.amount
                               * ((reward_rate * periods_passed * 100) \div 36000)
                 IN [res |-> "Ok", periods |-> periods_passed, reward |-> reward]

reward_amount(S, account, t) ==
    IF account \notin DOMAIN S.stakes
    THEN [res |-> "Err:Stake info not found", periods |-> 0, reward |-> 0]
    ELSE LET stake_info == S.stakes[account]
             time == IF t > stake_info.active_until THEN stake_info.active_until ELSE t
             last_claim == IF account \in DOMAIN S.last_reward_claims
                           THEN S.last_reward_claims[account] ELSE 0
         IN IF time < last_claim
            THEN [res |-> "Panic:overflow", periods |-> 0, reward |-> 0]
            ELSE LET periods_passed == (time - last_claim) \div DAY
                     reward == (stake_info.amount * reward_rate * periods_passed * 100)
                               \div 36000
                 IN [res |-> "Ok", periods |-> periods_passed, reward |-> reward]

_next_reward_date(S, account, t) ==
    IF account \in DOMAIN S.last_reward_claims
    THEN IF account \in DOMAIN S.stakes
         THEN LET stake_info == S.stakes[account] IN
              IF t > stake_info.active_until
              THEN [res |-> "Ok", val |-> stake_info.active_until]
              ELSE IF t < stake_info.started_at
                   THEN [res |-> "Panic:overflow", val |-> 0]
                   ELSE [res |-> "Ok",
                         val |-> (((t - stake_info.started_at) \div DAY) + 1) * DAY
                                 + stake_info.started_at]
         ELSE [res |-> "Err:Stake info not found", val |-> 0]
    ELSE [res |-> "Err:Last reward claim not found", val |-> 0]

available_rewards(S, account, t) ==
    LET r == reward_amount(S, account, t) IN [res |-> r.res, val |-> r.reward]

passed_reward_periods(S, account, t) ==
    LET r == reward_amount(S, account, t) IN [res |-> r.res, val |-> r.periods]

\* _stake that recomputes the lock end on every deposit
_stake_relock(S, account, periods, amount, t) ==
    LET new_amount == IF account \in DOMAIN S.stakes
                      THEN S.stakes[account].amount + amount ELSE amount
    IN IF ~_validate_period(periods)
       THEN Out(S, "Err:period not exist", <<>>, <<>>)
       ELSE LET until == t + (periods * DAY * 30)
                S1 == _set_stake_info(S, account, new_amount, periods, t, until)
            IN Out([S1 EXCEPT !.total_staked = @ + amount], "Ok", <<>>, <<>>)

\* _stake that adds the position's new principal, not the deposit, to
\* total_staked
_stake_adds_principal(S, account, periods, amount, t) ==
    LET new_amount == IF account \in DOMAIN S.stakes
                      THEN S.stakes[account].amount + amount ELSE amount
    IN IF ~_validate_period(periods)
       THEN Out(S, "Err:period not exist", <<>>, <<>>)
       ELSE LET until == IF amount = 0
                         THEN t + (periods * DAY * 30)
                         ELSE IF account \in DOMAIN S.stakes
                              THEN S.stakes[account].active_until ELSE 0
                S1 == _set_stake_info(S, account, new_amount, periods, t, until)
            IN Out([S1 EXCEPT !.total_staked = @ + new_amount], "Ok", <<>>, <<>>)

\* _stake that keeps started_at of an existing position
_stake_keep_start(S, account, periods, amount, t) ==
    LET new_amount == IF account \in DOMAIN S.stakes
                      THEN S.stakes[account].amount + amount ELSE amount
    IN IF ~_validate_period(periods)
       THEN Out(S, "Err:period not exist", <<>>, <<>>)
       ELSE LET until == IF amount = 0
                         THEN t + (periods * DAY * 30)
                         ELSE IF account \in DOMAIN S.stakes
                              THEN S.stakes[account].active_until ELSE 0
                start == IF account \in DOMAIN S.stakes /\ S.stakes[account].amount > 0
                         THEN S.stakes[account].started_at ELSE t
                S1 == _set_stake_info(S, account, new_amount, periods, start, until)
            IN Out([S1 EXCEPT !.total_staked = @ + amount], "Ok", <<>>, <<>>)

_stake(S, account, periods, amount, t) ==
    LET new_amount == IF account \in DOMAIN S.stakes
                      THEN S.stakes[account].amount + amount ELSE amount
    IN IF ~_validate_period(periods)
       THEN Out(S, "Err:period not exist", <<>>, <<>>)
       ELSE LET until == IF amount = 0
                         THEN t + (periods * DAY * 30)
                         ELSE IF account \in DOMAIN S.stakes
                              THEN S.stakes[account].active_until ELSE 0
                S1 == _set_stake_info(S, account, new_amount, periods, t, until)
            IN Out([S1 EXCEPT !.total_staked = @ + amount], "Ok", <<>>, <<>>)

\* _withdraw that clears the amount but keeps the lock metadata
_withdraw_keep_lock(S, account, amount, nativeOk) ==
    LET S1 == _set_stake_info(S, account, 0, S.stakes[account].period,
                              S.stakes[account].started_at, S.stakes[account].active_until)
    IN IF nativeOk
       THEN Out(S1, "Ok", <<amount>>, <<>>)
       ELSE Out(S1, "Err:Transfer failed", <<amount>>, <<>>)

\* _withdraw that also rewinds the account's accrual cursor to 0
_withdraw_reset_cursor(S, account, amount, nativeOk) ==
    LET S0 == _set_stake_info(S, account, 0, 0, 0, 0)
        S1 == [S0 EXCEPT !.last_reward_claims = Put(@, account, 0)]
    IN IF nativeOk
       THEN Out(S1, "Ok", <<amount>>, <<>>)
       ELSE Out(S1, "Err:Transfer failed", <<amount>>, <<>>)

_withdraw(S, account, amount, nativeOk) ==
    LET S1 == _set_stake_info(S, account, 0, 0, 0, 0)
    IN IF nativeOk
       THEN Out(S1, "Ok", <<amount>>, <<>>)
       ELSE Out(S1, "Err:Transfer failed", <<amount>>, <<>>)

\* _collect_rewards without the `not_direct && periods == 0` early return
_collect_rewards_no_gate(S, account, not_direct, t, tokenOk) ==
    IF account \in DOMAIN S.stakes /\ S.stakes[account].amount > 0
    THEN LET r == reward_amount(S, account, t) IN
         IF r.res # "Ok" THEN Out(S, r.res, <<>>, <<>>)
         ELSE IF ~(S.rewards_balance >= r.reward)
              THEN Out(S, "Panic:not enough rewards", <<>>, <<>>)
         ELSE IF ~(r.periods > 0) THEN Out(S, "Panic:too early", <<>>, <<>>)
         ELSE IF r.periods > MaxU32Periods THEN Out(S, "Panic:overflow", <<>>, <<>>)
         ELSE LET last_claim == IF account \in DOMAIN S.last_reward_claims
                                THEN S.last_reward_claims[account] ELSE 0
                  S1 == [S EXCEPT !.last_reward_claims =
                                      Put(@, account, last_claim + DAY * r.periods),
                                  !.rewards_balance = @ - r.reward]
                  reward_amount_in_reward_token == r.reward * reward_conversion_rate
              IN IF tokenOk
                 THEN Out(S1, "Ok", <<>>, <<reward_amount_in_reward_token>>)
                 ELSE Out(S1, "Err:Transfer failed", <<>>, <<reward_amount_in_reward_token>>)
    ELSE Out(S, "Ok", <<>>, <<>>)

\* _collect_rewards without the "not enough rewards" assertion
_collect_rewards_no_solvency(S, account, not_direct, t, tokenOk) ==
    IF account \in DOMAIN S.stakes /\ S.stakes[account].amount > 0
    THEN LET r == reward_amount(S, account, t) IN
         IF r.res # "Ok" THEN Out(S, r.res, <<>>, <<>>)
         ELSE IF not_direct /\ r.periods = 0 THEN Out(S, "Ok", <<>>, <<>>)
         ELSE IF ~(r.periods > 0) THEN Out(S, "Panic:too early", <<>>, <<>>)
         ELSE IF r.periods > MaxU32Periods THEN Out(S, "Panic:overflow", <<>>, <<>>)
         ELSE LET last_claim == IF account \in DOMAIN S.last_reward_claims
                                THEN S.last_reward_claims[account] ELSE 0
                  S1 == [S EXCEPT !.last_reward_claims =
                                      Put(@, account, last_claim + DAY * r.periods),
                                  !.rewards_balance = @ - r.reward]
                  reward_amount_in_reward_token == r.reward * reward_conversion_rate
              IN IF tokenOk
                 THEN Out(S1, "Ok", <<>>, <<reward_amount_in_reward_token>>)
                 ELSE Out(S1, "Err:Transfer failed", <<>>, <<reward_amount_in_reward_token>>)
    ELSE Out(S, "Ok", <<>>, <<>>)

\* _collect_rewards that pays the reward but does not advance the cursor
_collect_rewards_no_cursor(S, account, not_direct, t, tokenOk) ==
    IF account \in DOMAIN S.stakes /\ S.stakes[account].amount > 0
    THEN LET r == reward_amount(S, account, t) IN
         IF r.res # "Ok" THEN Out(S, r.res, <<>>, <<>>)
         ELSE IF not_direct /\ r.periods = 0 THEN Out(S, "Ok", <<>>, <<>>)
         ELSE IF ~(S.rewards_balance >= r.reward)
              THEN Out(S, "Panic:not enough rewards", <<>>, <<>>)
         ELSE IF ~(r.periods > 0) THEN Out(S, "Panic:too early", <<>>, <<>>)
         ELSE IF r.periods > MaxU32Periods THEN Out(S, "Panic:overflow", <<>>, <<>>)
         ELSE LET S1 == [S EXCEPT !.rewards_balance = @ - r.reward]
                  reward_amount_in_reward_token == r.reward * reward_conversion_rate
              IN IF tokenOk
                 THEN Out(S1, "Ok", <<>>, <<reward_amount_in_reward_token>>)
                 ELSE Out(S1, "Err:Transfer failed", <<>>, <<reward_amount_in_reward_token>>)
    ELSE Out(S, "Ok", <<>>, <<>>)

_collect_rewards(S, account, not_direct, t, tokenOk) ==
    IF account \in DOMAIN S.stakes /\ S.stakes[account].amount > 0
    THEN LET r == reward_amount(S, account, t) IN
         IF r.res # "Ok" THEN Out(S, r.res, <<>>, <<>>)
         ELSE IF not_direct /\ r.periods = 0 THEN Out(S, "Ok", <<>>, <<>>)
         ELSE IF ~(S.rewards_balance >= r.reward)
              THEN Out(S, "Panic:not enough rewards", <<>>, <<>>)
         ELSE IF ~(r.periods > 0) THEN Out(S, "Panic:too early", <<>>, <<>>)
         ELSE IF r.periods > MaxU32Periods THEN Out(S, "Panic:overflow", <<>>, <<>>)
         ELSE LET last_claim == IF account \in DOMAIN S.last_reward_claims
                                THEN S.last_reward_claims[account] ELSE 0
                  S1 == [S EXCEPT !.last_reward_claims =
                                      Put(@, account, last_claim + DAY * r.periods),
                                  !.rewards_balance = @ - r.reward]
                  reward_amount_in_reward_token == r.reward * reward_conversion_rate
              IN IF tokenOk
                 THEN Out(S1, "Ok", <<>>, <<reward_amount_in_reward_token>>)
                 ELSE Out(S1, "Err:Transfer failed", <<>>, <<reward_amount_in_reward_token>>)
    ELSE Out(S, "Ok", <<>>, <<>>)

stake(S, caller, period, value, t, tokenOk) ==
    IF ~(value > 0) THEN Out(S, "Panic:amount should be > 0", <<>>, <<>>)
    ELSE LET previous_amount == IF caller \in DOMAIN S.stakes
                                THEN S.stakes[caller].amount ELSE 0
             c == IF previous_amount # 0
                  THEN _collect_rewards(S, caller, TRUE, t, tokenOk)
                  ELSE Out(S, "Ok", <<>>, <<>>)
         IN IF c.res # "Ok" THEN c
            ELSE [_stake(c.st, caller, period, value, t) EXCEPT !.token = c.token]

\* withdraw guarded by extend's maturity assertion (`active_until < now`)
withdraw_matured_only(S, caller, t, tokenOk, nativeOk) ==
    IF caller \notin DOMAIN S.stakes THEN Out(S, "Err:no stake", <<>>, <<>>)
    ELSE IF ~(S.stakes[caller].active_until < t) THEN Out(S, "Panic:still active", <<>>, <<>>)
    ELSE LET c == _collect_rewards(S, caller, TRUE, t, tokenOk) IN
         IF c.res # "Ok" THEN c
         ELSE LET amount == c.st.stakes[caller].amount IN
              [_withdraw(c.st, caller, amount, nativeOk) EXCEPT !.token = c.token]

withdraw(S, caller, t, tokenOk, nativeOk) ==
    IF caller \notin DOMAIN S.stakes THEN Out(S, "Err:no stake", <<>>, <<>>)
    ELSE LET c == _collect_rewards(S, caller, TRUE, t, tokenOk) IN
         IF c.res # "Ok" THEN c
         ELSE LET amount == c.st.stakes[caller].amount IN
              [_withdraw(c.st, caller, amount, nativeOk) EXCEPT !.token = c.token]

\* emergency_withdraw that keeps early_withdraw_fee percent of the principal
emergency_withdraw_with_fee(S, caller, nativeOk) ==
    IF caller \notin DOMAIN S.stakes THEN Out(S, "Err:no stake", <<>>, <<>>)
    ELSE LET amount == S.stakes[caller].amount
             w == _withdraw(S, caller, amount - (amount * early_withdraw_fee) \div 100,
                            nativeOk)
         IN IF w.res # "Ok" THEN w
            ELSE [w EXCEPT !.st.stakes = Put(@, caller, StakeInfo(0, 0, 0, 0))]

emergency_withdraw(S, caller, nativeOk) ==
    IF caller \notin DOMAIN S.stakes THEN Out(S, "Err:no stake", <<>>, <<>>)
    ELSE LET amount == S.stakes[caller].amount
             w == _withdraw(S, caller, amount, nativeOk)
         IN IF w.res # "Ok" THEN w
            ELSE [w EXCEPT !.st.stakes = Put(@, caller, StakeInfo(0, 0, 0, 0))]

extend(S, caller, period, t, tokenOk) ==
    IF caller \notin DOMAIN S.stakes THEN Out(S, "Err:Stake info not found", <<>>, <<>>)
    ELSE LET stake_info == S.stakes[caller] IN
         IF ~(stake_info.amount > 0) THEN Out(S, "Panic:stake required", <<>>, <<>>)
         ELSE IF ~(stake_info.active_until < t) THEN Out(S, "Panic:still active", <<>>, <<>>)
         ELSE LET c == _collect_rewards(S, caller, TRUE, t, tokenOk) IN
              IF c.res # "Ok" THEN c
              ELSE [_stake(c.st, caller, period, 0, t) EXCEPT !.token = c.token]

claim(S, caller, t, tokenOk) ==
    IF caller \notin DOMAIN S.stakes THEN Out(S, "Err:no stake", <<>>, <<>>)
    ELSE _collect_rewards(S, caller, FALSE, t, tokenOk)

\* update_rewards_pool that overwrites the pool with the attached value
update_rewards_pool_overwrite(S, value) ==
    IF ~(value > 0) THEN Out(S, "Panic:amount should be > 0", <<>>, <<>>)
    ELSE Out([S EXCEPT !.rewards_balance = value], "Ok", <<>>, <<>>)

update_rewards_pool(S, value) ==
    IF ~(value > 0) THEN Out(S, "Panic:amount should be > 0", <<>>, <<>>)
    ELSE Out([S EXCEPT !.rewards_balance = @ + value], "Ok", <<>>, <<>>)

\* ---------------------------------------------------------------- actions
\* A call commits the storage the handler left behind and records, in last,
\* the call (message, caller, period and attached value) and its outcome
\* (ret: the value a read-only message returns).
\* The host ends a call: the storage the message leaves is committed when
\* the message returns Ok and discarded when it fails.  last records the
\* call, its result and the transfers it invoked before it ended.
Commit(o, op, caller, period, value) ==
    /\ stakes' = IF o.res = "Ok" THEN o.st.stakes ELSE stakes
    /\ last_reward_claims' = IF o.res = "Ok" THEN o.st.last_reward_claims
                             ELSE last_reward_claims
    /\ total_staked' = IF o.res = "Ok" THEN o.st.total_staked ELSE total_staked
    /\ rewards_balance' = IF o.res = "Ok" THEN o.st.rewards_balance ELSE rewards_balance
    /\ last' = [op |-> op, caller |-> caller, period |-> period, value |-> value,
                res |-> o.res, ret |-> 0, native |-> o.native, token |-> o.token]
    /\ history' = IF /\ history.tracking
                     /\ op = "stake" /\ o.res = "Ok"
                     /\ caller \notin DOMAIN history.first_deposit
                  THEN [history EXCEPT !.first_deposit = Put(@, caller, now)]
                  ELSE history
    /\ UNCHANGED now

\* the contract right after Staking::new, at the first block
Fresh ==
    /\ stakes = <<>>
    /\ last_reward_claims = <<>>
    /\ total_staked = 0
    /\ rewards_balance = 0
    /\ now = 0
    /\ last = NoCall

Init ==
    /\ Fresh
    /\ history = [tracking |-> FALSE, first_deposit |-> <<>>]

Stake(caller, period, value, tokenOk) ==
    /\ total_staked + value <= MaxTotalStaked
    /\ Commit(stake(Storage, caller, period, value, now, tokenOk),
              "stake", caller, period, value)

Withdraw(caller, tokenOk, nativeOk) ==
    /\ caller \in Accounts
    /\ Commit(withdraw(Storage, caller, now, tokenOk, nativeOk),
              "withdraw", caller, 0, 0)

EmergencyWithdraw(caller, nativeOk) ==
    /\ caller \in Accounts
    /\ Commit(emergency_withdraw(Storage, caller, nativeOk),
              "emergency_withdraw", caller, 0, 0)

Extend(caller, period, tokenOk) ==
    /\ caller \in Accounts
    /\ Commit(extend(Storage, caller, period, now, tokenOk),
              "extend", caller, period, 0)

Claim(caller, tokenOk) ==
    /\ caller \in Accounts
    /\ Commit(claim(Storage, caller, now, tokenOk), "claim", caller, 0, 0)

UpdateRewardsPool(value, cap) ==
    /\ rewards_balance + value <= cap
    /\ Commit(update_rewards_pool(Storage, value),
              "update_rewards_pool", "none", 0, value)

\* the host produces the next block: the timestamp moves forward
AdvanceTime(t) ==
    /\ t > now
    /\ now' = t
    /\ last' = NoCall
    /\ UNCHANGED <<stakes, last_reward_claims, total_staked, rewards_balance, history>>

\* tf / nf: the reward-token transfer, the native transfer is declined
Next ==
    \/ \E a \in Accounts, p \in Periods, v \in StakeValues, tf \in BOOLEAN : Stake(a, p, v, ~tf)
    \/ \E a \in Accounts, tf \in BOOLEAN, nf \in BOOLEAN : Withdraw(a, ~tf, ~nf)
    \/ \E a \in Accounts, nf \in BOOLEAN : EmergencyWithdraw(a, ~nf)
    \/ \E a \in Accounts, p \in Periods, tf \in BOOLEAN : Extend(a, p, ~tf)
    \/ \E a \in Accounts, tf \in BOOLEAN : Claim(a, ~tf)
    \/ \E v \in PoolValues : UpdateRewardsPool(v, MaxPool)
    \/ \E t \in Timestamps : AdvanceTime(t)

Spec == Init /\ [][Next]_vars

\* ------------------------------------- the reward-accrual engine on its own
\* A read-only message: storage is untouched, the answer is recorded.
Query(q, op, account) ==
    /\ last' = [op |-> op, caller |-> account, period |-> 0, value |-> 0,
                res |-> q.res, ret |-> q.val, native |-> <<>>, token |-> <<>>]
    /\ UNCHANGED <<stakes, last_reward_claims, total_staked, rewards_balance, now,
                   history>>

AvailableRewards(account) ==
    /\ account \in Accounts
    /\ Query(available_rewards(Storage, account, now), "available_rewards", account)

PassedRewardPeriods(account) ==
    /\ account \in Accounts
    /\ Query(passed_reward_periods(Storage, account, now), "passed_reward_periods", account)

\* One account holds a position of any amount: either a plain deposit
\* (active_until = 0, never collected) or one locked by extend(6) at time s,
\* on which c whole days may have been collected (c = 0: none, no cursor).
InitReward ==
    \E amt \in RewardAmounts, s \in {HalfDay, DAY}, locked \in BOOLEAN, c \in 0..2 :
        /\ c > 0 => locked
        /\ stakes = [a \in {"alice"} |->
                        StakeInfo(amt, s, 6, IF locked THEN s + LockBlock ELSE 0)]
        /\ last_reward_claims = IF c = 0 THEN <<>> ELSE [a \in {"alice"} |-> c * DAY]
        /\ total_staked = amt
        /\ rewards_balance = 0
        /\ now = IF c * DAY > s THEN c * DAY ELSE s
        /\ last = NoCall
        /\ history = [tracking |-> FALSE, first_deposit |-> <<>>]

NextReward ==
    \/ \E a \in Accounts : AvailableRewards(a)
    \/ \E a \in Accounts : PassedRewardPeriods(a)
    \/ \E t \in RewardTimestamps : AdvanceTime(t)

SpecReward == InitReward /\ [][NextReward]_vars

\* ------------------------------------- one account, with its deposit history
\* The same messages, called by one account, with the timestamp of its
\* earliest deposit recorded.
InitHistory ==
    /\ Fresh
    /\ history = [tracking |-> TRUE, first_deposit |-> <<>>]

NextHistory ==
    \/ \E p \in Periods, v \in StakeValues, tf \in BOOLEAN : Stake("alice", p, v, ~tf)
    \/ \E tf \in BOOLEAN, nf \in BOOLEAN : Withdraw("alice", ~tf, ~nf)
    \/ \E nf \in BOOLEAN : EmergencyWithdraw("alice", ~nf)
    \/ \E p \in Periods, tf \in BOOLEAN : Extend("alice", p, ~tf)
    \/ \E tf \in BOOLEAN : Claim("alice", ~tf)
    \/ \E v \in PoolValues : UpdateRewardsPool(v, MaxPool)
    \/ \E t \in Timestamps : AdvanceTime(t)

SpecHistory == InitHistory /\ [][NextHistory]_vars

\* ------------------------------------------ a lock set by extend runs out
\* The same messages, called by one account, on a chain that lives past the
\* end of a 6-period lock, with a pool that can pay the reward of the whole
\* lock.
NextLock ==
    \/ \E p \in Periods, v \in StakeValues, tf \in BOOLEAN : Stake("alice", p, v, ~tf)
    \/ \E tf \in BOOLEAN, nf \in BOOLEAN : Withdraw("alice", ~tf, ~nf)
    \/ \E nf \in BOOLEAN : EmergencyWithdraw("alice", ~nf)
    \/ \E p \in Periods, tf \in BOOLEAN : Extend("alice", p, ~tf)
    \/ \E tf \in BOOLEAN : Claim("alice", ~tf)
    \/ \E v \in LockPoolValues : UpdateRewardsPool(v, MaxLockPool)
    \/ \E t \in LockTimestamps : AdvanceTime(t)

SpecLock == Init /\ [][NextLock]_vars

TypeOK ==
    /\ DOMAIN stakes \subseteq Accounts
    /\ DOMAIN last_reward_claims \subseteq Accounts
    /\ total_staked \in Nat
    /\ rewards_balance \in Nat
    /\ now \in Timestamps \cup RewardTimestamps \cup LockTimestamps
    /\ history.tracking \in BOOLEAN
    /\ DOMAIN history.first_deposit \subseteq Accounts

\* ------------------------------------------------- vocabulary of the claims
StorageVars == <<stakes, last_reward_claims, total_staked, rewards_balance>>

\* the step is a call of message op by caller a (its outcome is in last')
Called(op, a) == last'.op = op /\ last'.caller = a

\* a holds principal
Staked(a) == a \in DOMAIN stakes /\ stakes[a].amount > 0

RECURSIVE SumAmounts(_, _)
SumAmounts(m, D) ==
    IF D = {} THEN 0
    ELSE LET a == CHOOSE x \in D : TRUE IN m[a].amount + SumAmounts(m, D \ {a})

\* the reward the accrual formula of the specification owes account a now:
\* whole periods between the cursor (0 if absent) and min(now, active_until)
OwedReward(a) ==
    LET time == IF now > stakes[a].active_until THEN stakes[a].active_until ELSE now
        cursor == IF a \in DOMAIN last_reward_claims THEN last_reward_claims[a] ELSE 0
        periods == IF time < cursor THEN 0 ELSE (time - cursor) \div DAY
    IN (stakes[a].amount * reward_rate * periods * 100) \div 36000

\* ------------------------------------------------------------------ C1
\* C1: a successful first deposit (value > 0, no existing stake, valid
\* period) at time now leaves active_until = now + period * 30 * 86400.
C1_FirstDepositActiveUntil ==
    [][\A a \in Accounts :
        (Called("stake", a) /\ last'.res = "Ok" /\ ~Staked(a))
        => stakes'[a].active_until = now + stakes'[a].period * 30 * DAY]_vars

\* ------------------------------------------------------------------ C2
\* C2: in every reachable state every position with amount > 0 has
\* active_until >= started_at.
C2_ActiveUntilAfterStart ==
    \A a \in DOMAIN stakes :
        stakes[a].amount > 0 => stakes[a].active_until >= stakes[a].started_at

\* ------------------------------------------------------------------ C3
\* C3: withdraw() on a position that an earlier withdrawal zeroed returns
\* NoStake, performs no transfer and changes no state.
C3_RepeatedWithdrawNoStake ==
    [][\A a \in Accounts :
        (Called("withdraw", a) /\ a \in DOMAIN stakes /\ stakes[a].amount = 0)
        => /\ last'.res = "Err:no stake"
           /\ last'.native = <<>>
           /\ UNCHANGED StorageVars]_vars

\* ------------------------------------------------------------------ C4
\* C4: in every reachable state total_staked is the sum of the amounts of
\* all positions.
C4_TotalStakedIsSum == total_staked = SumAmounts(stakes, DOMAIN stakes)

\* ------------------------------------------------------------------ C5
\* C5: right after an account's first successful stake the account has an
\* accrual cursor, so next_reward_date does not fail for want of one.
C5_CursorCreatedWithDeposit ==
    [][\A a \in Accounts :
        (Called("stake", a) /\ last'.res = "Ok" /\ ~Staked(a))
        => /\ a \in DOMAIN last_reward_claims'
           /\ _next_reward_date(Storage', a, now').res # "Err:Last reward claim not found"]_vars

\* ------------------------------------------------------------------ C6
\* C6: for a matured position (amount > 0, now >= active_until) with a pool
\* that covers the owed reward and transfers that succeed, withdraw() and a
\* top-up stake(p, v) with a valid p and v > 0 complete successfully.
C6_MaturedWithdrawableAndTopUpAble ==
    [][\A a \in Accounts :
        (/\ Staked(a)
         /\ now >= stakes[a].active_until
         /\ rewards_balance >= OwedReward(a)
         /\ Called("withdraw", a) \/ Called("stake", a)
         /\ last'.res \notin {"Err:Transfer failed", "Err:period not exist",
                              "Panic:amount should be > 0"})
        => last'.res = "Ok"]_vars

\* ------------------------------------------------------------------ C7
\* what a successful extend leaves behind: amount unchanged, started_at =
\* now, the stored period is the period passed, active_until recomputed
ExtendPost(a) ==
    /\ stakes'[a].amount = stakes[a].amount
    /\ stakes'[a].started_at = now
    /\ stakes'[a].period = last'.period
    /\ stakes'[a].active_until = now + last'.period * 30 * DAY

\* extend before maturity aborts with "still active" and changes no state
ExtendStillActive(a) ==
    now <= stakes[a].active_until
    => last'.res = "Panic:still active" /\ UNCHANGED StorageVars

\* C7: extend fails with StillActive, changing no state, when
\* now <= active_until, and succeeds when active_until < now and the period
\* is valid, leaving amount unchanged, started_at = now, the new period and
\* active_until = now + period * 30 * 86400.
C7_ExtendAsStated ==
    [][\A a \in Accounts :
        (Called("extend", a) /\ Staked(a))
        => /\ ExtendStillActive(a)
           /\ (stakes[a].active_until < now /\ _validate_period(last'.period))
              => (last'.res = "Ok" /\ ExtendPost(a))]_vars

\* ------------------------------------------------------------------ C8
\* zero whole accrual periods have elapsed for a position with principal
ZeroPeriods(a) ==
    /\ Staked(a)
    /\ LET r == reward_amount(Storage, a, now) IN r.res = "Ok" /\ r.periods = 0

\* the failures stake, withdraw and extend have of their own, apart from
\* the reward collection: a zero value, an unknown period, a lock still
\* active, a declined native transfer
OwnFailure ==
    \/ last'.op = "stake" /\ ~(last'.value > 0) /\ last'.res = "Panic:amount should be > 0"
    \/ /\ last'.op \in {"stake", "extend"}
       /\ ~_validate_period(last'.period) /\ last'.res = "Err:period not exist"
    \/ /\ last'.op = "extend"
       /\ now <= stakes[last'.caller].active_until /\ last'.res = "Panic:still active"
    \/ last'.op = "withdraw" /\ last'.native # <<>> /\ last'.res = "Err:Transfer failed"

\* C8: with zero whole periods elapsed, claim() aborts ("too early") and
\* changes no state, while stake (top-up), withdraw and extend leave the
\* cursor and rewards_balance untouched, invoke no reward transfer, and
\* complete successfully unless one of their own checks fails.
C8_ZeroPeriodAsymmetry ==
    [][\A a \in Accounts :
        (last'.caller = a /\ ZeroPeriods(a))
        => /\ last'.op = "claim"
              => (last'.res = "Panic:too early" /\ UNCHANGED StorageVars)
           /\ last'.op \in {"stake", "withdraw", "extend"}
              => /\ UNCHANGED <<last_reward_claims, rewards_balance>>
                 /\ last'.token = <<>>
                 /\ last'.res = "Ok" \/ OwnFailure]_vars

\* a withdraw of a position with principal has completed although no whole
\* period had elapsed: nothing was collected (the account has no cursor)
C8_Witness ==
    /\ last.op = "withdraw" /\ last.res = "Ok"
    /\ last.native = <<72>> /\ last.token = <<>>
    /\ last.caller \notin DOMAIN last_reward_claims
    /\ rewards_balance > 0

\* ------------------------------------------------------------------ C9
\* the reward computed for a exceeds the pool
Insolvent(a) ==
    /\ Staked(a)
    /\ LET r == reward_amount(Storage, a, now) IN r.res = "Ok" /\ r.reward > rewards_balance

\* C9: a reward collection (claim, or forced in withdraw/stake/extend)
\* whose reward exceeds rewards_balance aborts and leaves cursor,
\* rewards_balance, positions and total_staked unchanged; rewards_balance
\* is never below zero.
C9_InsolventCollectionFatal ==
    [][/\ \A a \in Accounts :
            (/\ last'.caller = a
             /\ last'.op \in {"claim", "withdraw", "stake", "extend"}
             /\ Insolvent(a)
             /\ ~OwnFailure)
            => (last'.res = "Panic:not enough rewards" /\ UNCHANGED StorageVars)
       /\ rewards_balance >= 0
       /\ rewards_balance' >= 0]_vars

\* a claim aborted on an exhausted pool that another account drew from
C9_Witness ==
    /\ last.op = "claim" /\ last.res = "Panic:not enough rewards"
    /\ rewards_balance = 0
    /\ \E b \in DOMAIN last_reward_claims : b # last.caller

\* ------------------------------------------------------------------ C10
\* C10: a call that returns a recoverable error (NotFound/NoStake,
\* InvalidPeriod, TransferFailed; StillActive aborts the call) has changed
\* no position, cursor, rewards_balance or total_staked.  In particular a
\* top-up stake(period, value) with a period outside available_periods, on
\* a position with a whole period elapsed that the pool can pay, returns
\* InvalidPeriod (or TransferFailed, when the reward transfer of its forced
\* collection is declined) and changes nothing.
C10_ErrorLeavesStateUnchanged ==
    [][/\ last'.res \in {"Err:no stake", "Err:Stake info not found",
                         "Err:period not exist", "Err:Transfer failed",
                         "Panic:still active"}
          => UNCHANGED StorageVars
       /\ \A a \in Accounts :
            (/\ Called("stake", a) /\ last'.value > 0
             /\ last'.period \notin available_periods
             /\ Staked(a)
             /\ LET r == reward_amount(Storage, a, now)
                IN r.res = "Ok" /\ r.periods > 0 /\ rewards_balance >= r.reward)
            => /\ last'.res \in {"Err:period not exist", "Err:Transfer failed"}
               /\ last'.res = "Err:Transfer failed" => last'.token # <<>>
               /\ UNCHANGED StorageVars]_vars

\* a top-up with an unknown period was refused after its forced collection
\* had handed one period of reward to the reward transfer: the caller has
\* no cursor and the pool still holds the reward
C10_Witness ==
    /\ last.op = "stake" /\ last.res = "Err:period not exist" /\ last.period = 3
    /\ last.token = <<1>>
    /\ stakes[last.caller].amount = 72
    /\ last.caller \notin DOMAIN last_reward_claims
    /\ rewards_balance >= 1
    /\ now = DAY

\* ------------------------------------------------------------------ C11
\* C11: a successful withdraw() by an account holding principal a zeroes
\* the position (amount, started_at, period, active_until all 0) and hands
\* exactly a to the native transfer collaborator.
C11_WithdrawReturnsPrincipal ==
    [][\A a \in Accounts :
        (Called("withdraw", a) /\ last'.res = "Ok" /\ a \in DOMAIN stakes)
        => /\ stakes'[a] = StakeInfo(0, 0, 0, 0)
           /\ last'.native = <<stakes[a].amount>>]_vars

\* a withdraw of a topped-up, extended position has returned 144
C11_Witness ==
    /\ last.op = "withdraw" /\ last.res = "Ok" /\ last.native = <<144>>
    /\ stakes[last.caller] = StakeInfo(0, 0, 0, 0)
    /\ now > 0

\* ------------------------------------------------------------------ C12
\* C12: emergency_withdraw() on an existing position succeeds whenever the
\* native transfer succeeds, whatever the maturity and the pool; it hands
\* the full principal to the native transfer, zeroes the position, and
\* collects nothing: cursor and rewards_balance are unchanged and the
\* reward-token transfer is not invoked.
C12_EmergencyWithdrawSkipsRewards ==
    [][\A a \in Accounts :
        (Called("emergency_withdraw", a) /\ a \in DOMAIN stakes)
        => /\ last'.native = <<stakes[a].amount>>
           /\ last'.token = <<>>
           /\ UNCHANGED <<last_reward_claims, rewards_balance>>
           /\ last'.res \in {"Ok", "Err:Transfer failed"}
           /\ last'.res = "Ok" => stakes'[a] = StakeInfo(0, 0, 0, 0)]_vars

\* an emergency withdrawal went through on an empty pool, a whole day in,
\* for an account that was never paid a reward
C12_Witness ==
    /\ last.op = "emergency_withdraw" /\ last.res = "Ok" /\ last.native = <<72>>
    /\ stakes[last.caller] = StakeInfo(0, 0, 0, 0)
    /\ last.caller \notin DOMAIN last_reward_claims
    /\ rewards_balance = 0
    /\ now = DAY

\* ------------------------------------------------------------------ C13
\* C13: a top-up (stake with value > 0 on a position with amount > 0)
\* leaves active_until unchanged, whatever the period passed and whether
\* the position is active or matured; the active_until of a position that
\* stays open is changed by extend only.
C13_TopUpKeepsActiveUntil ==
    [][\A a \in Accounts :
        Staked(a)
        => /\ Called("stake", a)
              => stakes'[a].active_until = stakes[a].active_until
           /\ (stakes'[a].amount > 0
               /\ stakes'[a].active_until # stakes[a].active_until)
              => (Called("extend", a) /\ last'.res = "Ok")]_vars

\* a position locked by extend(6) was topped up with period 12: the
\* stored period changed, the lock end did not
C13_Witness ==
    /\ last.op = "stake" /\ last.res = "Ok" /\ last.period = 12
    /\ stakes[last.caller].amount = 144
    /\ stakes[last.caller].period = 12
    /\ stakes[last.caller].started_at = now
    /\ stakes[last.caller].active_until = HalfDay + 6 * 30 * DAY
    /\ now = DAY

\* ------------------------------------------------------------------ C14
\* C14: every successful deposit (stake with value > 0 and a valid period,
\* first deposit or top-up) leaves total_staked = total_staked before the
\* call + the deposited value.
C14_DepositAddsToTotalStaked ==
    [][\A a \in Accounts :
        (Called("stake", a) /\ last'.res = "Ok")
        => /\ last'.value > 0
           /\ _validate_period(last'.period)
           /\ total_staked' = total_staked + last'.value]_vars

\* a top-up has brought total_staked from 72 to 144
C14_Witness ==
    /\ last.op = "stake" /\ last.res = "Ok" /\ last.value = 72
    /\ stakes[last.caller].amount = 144
    /\ total_staked = 144

\* ------------------------------------------------------------------ C15
\* the principal an account holds, 0 if it has no position
AmountOf(m, a) == IF a \in DOMAIN m THEN m[a].amount ELSE 0

\* C15: after a successful stake(period, value) the caller's position has
\* amount = previous amount (0 if none) + value, period = the period
\* passed and started_at = now; no other account's position is changed.
C15_StakePostState ==
    [][\A a \in Accounts :
        (Called("stake", a) /\ last'.res = "Ok")
        => /\ stakes'[a].amount = AmountOf(stakes, a) + last'.value
           /\ stakes'[a].period = last'.period
           /\ stakes'[a].started_at = now
           /\ DOMAIN stakes' = DOMAIN stakes \cup {a}
           /\ \A b \in DOMAIN stakes \ {a} : stakes'[b] = stakes[b]]_vars

\* a deposit with period 12 made while another account holds a position
\* opened earlier with period 6
C15_Witness ==
    /\ last.op = "stake" /\ last.res = "Ok" /\ last.period = 12 /\ last.value = 72
    /\ stakes[last.caller].amount = 72
    /\ stakes[last.caller].period = 12
    /\ stakes[last.caller].started_at = now
    /\ now > 0
    /\ \E b \in DOMAIN stakes :
          /\ b # last.caller
          /\ stakes[b].amount = 72 /\ stakes[b].period = 6 /\ stakes[b].started_at # now

\* ------------------------------------------------------------------ C16
\* the accrual cursor of an account, 0 if it has none
CursorOf(m, a) == IF a \in DOMAIN m THEN m[a] ELSE 0

\* C16: an account's cursor is never removed and never decreases; every
\* change of it is an increase by periods * 86400, periods > 0 being the
\* whole periods paid by the reward collection of a successful call of that
\* account (claim, or forced in stake/withdraw/extend), whose reward went
\* to the reward transfer; withdraw, emergency_withdraw, stake and extend
\* do not reset it.
C16_CursorMonotonic ==
    [][\A a \in Accounts :
        /\ a \in DOMAIN last_reward_claims
           => (/\ a \in DOMAIN last_reward_claims'
               /\ last_reward_claims'[a] >= last_reward_claims[a])
        /\ (/\ a \in DOMAIN last_reward_claims'
            /\ last_reward_claims'[a] # CursorOf(last_reward_claims, a)
               \/ a \notin DOMAIN last_reward_claims)
           => LET r == reward_amount(Storage, a, now)
                  d == last_reward_claims'[a] - CursorOf(last_reward_claims, a)
              IN /\ last'.caller = a
                 /\ last'.op \in {"claim", "stake", "withdraw", "extend"}
                 /\ last'.res = "Ok"
                 /\ r.res = "Ok" /\ r.periods > 0
                 /\ d = r.periods * DAY
                 /\ d > 0 /\ d % DAY = 0
                 /\ last'.token = <<r.reward * reward_conversion_rate>>]_vars

\* the cursor has advanced twice: a claim had moved it to day 1, and the
\* extend of the matured lock (taken on day 1, ended on day 181) has now
\* paid the 180 periods up to the lock's end and moved it to day 181
C16_Witness ==
    /\ last.op = "extend" /\ last.res = "Ok" /\ last.token = <<180>>
    /\ stakes[last.caller].amount = 72
    /\ stakes[last.caller].started_at = now
    /\ last_reward_claims[last.caller] = DAY + 180 * DAY
    /\ now = LockBlock + 2 * DAY

\* ------------------------------------------------------------------ C17
\* C17: the reward owed is floor(amount * 5 * periods * 100 / 36000),
\* multiplied out before the division, with
\* periods = floor((min(now, active_until) - cursor) / 86400) and cursor 0
\* if absent; amount 10000 and 3 periods give 416.
C17_RewardFormula ==
    \A a \in DOMAIN stakes :
        (last.caller = a /\ last.res = "Ok")
        => LET t == IF now < stakes[a].active_until THEN now ELSE stakes[a].active_until
               periods == (t - CursorOf(last_reward_claims, a)) \div 86400
           IN /\ last.op = "passed_reward_periods" => last.ret = periods
              /\ last.op = "available_rewards"
                 => /\ last.ret = (stakes[a].amount * 5 * periods * 100) \div 36000
                    /\ (stakes[a].amount = 10000 /\ periods = 3) => last.ret = 416

\* the reward of 10000 over 3 periods was asked for and is 416
C17_Witness ==
    /\ last.op = "available_rewards" /\ last.res = "Ok" /\ last.ret = 416
    /\ stakes[last.caller].amount = 10000
    /\ now = 3 * DAY

\* ------------------------------------------------------------------ C18
\* reward_amount for a reports no whole period and no reward
NothingOwed(S, a, t) ==
    reward_amount(S, a, t) = [res |-> "Ok", periods |-> 0, reward |-> 0]

\* C18: right after a reward collection has paid an account, reward_amount
\* for that account at the same timestamp yields periods = 0 and reward =
\* 0, and a second collection at that timestamp pays nothing.  Stated for
\* the storage left by the collection a call runs (direct in claim, forced
\* in stake, withdraw and extend), and for the state after a claim() or
\* top-up that collected.
C18_SecondCollectionPaysNothing ==
    [][\A a \in Accounts :
        /\ (/\ last'.caller = a
            /\ last'.op \in {"claim", "stake", "withdraw", "extend"}
            /\ last'.token # <<>>)
           => LET c == _collect_rewards(Storage, a, last'.op # "claim", now, TRUE) IN
              (c.res = "Ok" /\ c.token # <<>>)
              => /\ NothingOwed(c.st, a, now)
                 /\ _collect_rewards(c.st, a, TRUE, now, TRUE) = Out(c.st, "Ok", <<>>, <<>>)
        /\ (/\ last'.caller = a /\ last'.op \in {"claim", "stake"}
            /\ last'.res = "Ok" /\ last'.token # <<>>)
           => /\ NothingOwed(Storage', a, now')
              /\ _collect_rewards(Storage', a, TRUE, now', TRUE)
                 = Out(Storage', "Ok", <<>>, <<>>)]_vars

\* a claim has paid one period of reward; asked again, nothing is owed
C18_Witness ==
    /\ last.op = "claim" /\ last.res = "Ok" /\ last.token = <<1>>
    /\ stakes[last.caller].amount = 72
    /\ last_reward_claims[last.caller] = DAY
    /\ now = DAY
    /\ NothingOwed(Storage, last.caller, now)

\* ------------------------------------------------------------------ C19
\* C19: update_rewards_pool with attached value > 0 increases
\* rewards_balance by exactly that value and changes no position, cursor
\* or total_staked; with value 0 it aborts and changes nothing.
C19_PoolTopUp ==
    [][last'.op = "update_rewards_pool"
       => /\ last'.value > 0
             => /\ last'.res = "Ok"
                /\ rewards_balance' = rewards_balance + last'.value
                /\ UNCHANGED <<stakes, last_reward_claims, total_staked>>
          /\ last'.value = 0
             => /\ last'.res = "Panic:amount should be > 0"
                /\ UNCHANGED StorageVars]_vars

\* a second top-up has added to a pool that already held 1, with a
\* position open
C19_Witness ==
    /\ last.op = "update_rewards_pool" /\ last.res = "Ok" /\ last.value = 1
    /\ rewards_balance = 2
    /\ \E a \in DOMAIN stakes : stakes[a].amount > 0
    /\ total_staked = 72

\* ------------------------------------------------------------------ C20
\* C20: no reward is paid for time before the account held a position:
\* the whole periods paid to an account so far (its cursor / 86400, the
\* cursor counting from 0) never exceed
\* floor((now - time of the account's earliest deposit) / 86400).
C20_NoRewardBeforeDeposit ==
    \A a \in DOMAIN last_reward_claims :
        a \in DOMAIN history.first_deposit
        => last_reward_claims[a] \div DAY <= (now - history.first_deposit[a]) \div DAY

\* ------------------------------------------------------------------ C21
\* a holds principal in a position whose lock has not ended
Active(a) == Staked(a) /\ now < stakes[a].active_until

\* whole periods between a's cursor and now
ActivePeriods(a) == (now - CursorOf(last_reward_claims, a)) \div DAY

\* C21: withdraw() has no maturity precondition.  For a caller with
\* amount > 0 and now < active_until it is never rejected for the lock: it
\* ends Ok, or aborts on an insolvent pool changing nothing, or reports a
\* declined transfer.  When it ends Ok the forced collection has run (with
\* no whole period owed: cursor and pool untouched, no reward transfer;
\* otherwise the cursor advanced by the periods owed and the reward left
\* the pool), the full principal was transferred and the position is
\* zeroed, as for a matured position.
C21_WithdrawBeforeMaturity ==
    [][\A a \in Accounts :
        (Called("withdraw", a) /\ Active(a))
        => /\ last'.res \in {"Ok", "Panic:not enough rewards", "Err:Transfer failed"}
           /\ last'.res = "Panic:not enough rewards"
              => (OwedReward(a) > rewards_balance /\ UNCHANGED StorageVars)
           /\ last'.res = "Err:Transfer failed"
              => (last'.native # <<>> \/ last'.token # <<>>)
           /\ last'.res = "Ok"
              => /\ last'.native = <<stakes[a].amount>>
                 /\ stakes'[a] = StakeInfo(0, 0, 0, 0)
                 /\ IF ActivePeriods(a) = 0
                    THEN /\ UNCHANGED <<last_reward_claims, rewards_balance>>
                         /\ last'.token = <<>>
                    ELSE /\ last_reward_claims'[a]
                            = CursorOf(last_reward_claims, a) + DAY * ActivePeriods(a)
                         /\ rewards_balance' = rewards_balance - OwedReward(a)
                         /\ last'.token = <<OwedReward(a) * reward_conversion_rate>>]_vars

\* a withdraw has returned the principal and its forced collection has paid
\* one period at now = 86400: the position's active_until was at least
\* 86400, so it was set by extend and lies beyond now
C21_Witness ==
    /\ last.op = "withdraw" /\ last.res = "Ok"
    /\ last.native = <<72>> /\ last.token = <<1>>
    /\ stakes[last.caller] = StakeInfo(0, 0, 0, 0)
    /\ last_reward_claims[last.caller] = DAY
    /\ now = DAY
====
